---------------------------- MODULE Spec2Model ----------------------------
(***************************************************************************)
(* Trade lifecycle and portfolio ledger of the trading journal             *)
(* (src/App.tsx, src/utils/helpers.ts, src/types.ts).                      *)
(*                                                                         *)
(* Every event handler of the application runs to completion; one action   *)
(* below is one handler (with every state setter it calls), or the         *)
(* settling of the one asynchronous call (the AI intake request).          *)
(*                                                                         *)
(* Numbers: amounts and prices are integers.  The inputs are drawn so that *)
(* positionSize / entryPrice is an integer, hence every value the handlers *)
(* compute is an integer that a double represents exactly.                 *)
(*                                                                         *)
(* Trade fields that no handler reads after creation (entryDate, ticker,   *)
(* thesis, conviction, checklist, ...) and the free-text fields of the     *)
(* exit form are left out of the records.                                  *)
(***************************************************************************)
EXTENDS Integers, Sequences, FiniteSets, TLC

VARIABLES
    trades,             \* App: useLocalStorage('trades')
    settings,           \* App: useLocalStorage('settings')
    activeView,         \* App: useState('dashboard')
    isJournalEntryOpen, \* App: useState(false)
    userInput,          \* AIJournalEntryModal: textarea content
    isLoading,          \* AIJournalEntryModal
    error,              \* AIJournalEntryModal
    parsedTrade,        \* AIJournalEntryModal: the AI proposal or null
    calls,              \* outstanding generateContent calls
    tradeToClose,       \* DashboardView: useState(null)
    form,               \* TradeExitForm: useState({exitPrice: '', ...})
    alertMsg,           \* window.alert dialog being shown ("" when none)
    apiKey,             \* process.env.API_KEY is set
    cashAtOpen,         \* history: see RecordOpen, RecordClose
    probe               \* a pure function's arguments and, once applied, result

vars == <<trades, settings, activeView, isJournalEntryOpen, userInput,
          isLoading, error, parsedTrade, calls, tradeToClose, form,
          alertMsg, apiKey, cashAtOpen, probe>>

-----------------------------------------------------------------------------
(* Bounds of the model *)

MaxTrades == 2

\* prices and share counts a pure function is applied to
MaxPrice == 6

MaxShares == 3

\* the closed trades AnalyticsView is applied to, and the open trades
\* AccountDashboard is applied to
MaxClosed == 3

MaxOpen == 2

\* the number of stored trades handleConfirm is applied to
MaxStored == 1000

MaxOrphaned == 1

-----------------------------------------------------------------------------
(* JavaScript values *)

Null == [type |-> "null"]

Undefined == [type |-> "undefined"]

Num(n) == [type |-> "number", val |-> n]

Str(s) == [type |-> "string", val |-> s]

\* A string whose characters matter (it is parsed): a sequence of characters
Txt(chars) == [type |-> "text", val |-> chars]

Digits == {"0", "1", "2", "3", "4", "5", "6", "7", "8", "9"}

DigitVal(c) ==
    CASE c = "0" -> 0 [] c = "1" -> 1 [] c = "2" -> 2 [] c = "3" -> 3
      [] c = "4" -> 4 [] c = "5" -> 5 [] c = "6" -> 6 [] c = "7" -> 7
      [] c = "8" -> 8 [] c = "9" -> 9

RECURSIVE SkipSpaces(_)
SkipSpaces(chars) ==
    IF chars # << >> /\ Head(chars) = " " THEN SkipSpaces(Tail(chars))
    ELSE chars

RECURSIVE DropTrailingSpaces(_)
DropTrailingSpaces(chars) ==
    IF chars # << >> /\ chars[Len(chars)] = " "
    THEN DropTrailingSpaces(SubSeq(chars, 1, Len(chars) - 1))
    ELSE chars

\* String.prototype.trim
Trim(chars) == DropTrailingSpaces(SkipSpaces(chars))

\* A quotient a / b of two integers, kept exact: [num, den] in lowest terms
\* with den > 0.  Division by zero gives what it gives in JavaScript:
\* den = 0 with num = 0 for NaN and num = 1 or -1 for the infinities.
RECURSIVE Gcd(_, _)
Gcd(a, b) == IF b = 0 THEN a ELSE Gcd(b, a % b)

Abs(a) == IF a < 0 THEN -a ELSE a

Whole(n) == [num |-> n, den |-> 1]

Divide(a, b) ==
    IF b = 0
    THEN [num |-> IF a = 0 THEN 0 ELSE IF a > 0 THEN 1 ELSE -1, den |-> 0]
    ELSE LET g == Gcd(Abs(a), Abs(b))
             n == IF b < 0 THEN -a ELSE a
         IN  [num |-> n \div g, den |-> Abs(b) \div g]

\* q * k for an integer k
Times(q, k) ==
    IF q.den = 0
    THEN [num |-> IF k = 0 THEN 0 ELSE IF k > 0 THEN q.num ELSE -q.num, den |-> 0]
    ELSE Divide(q.num * k, q.den)

\* the longest prefix of digits
RECURSIVE DigitPrefix(_)
DigitPrefix(chars) ==
    IF chars # << >> /\ Head(chars) \in Digits
    THEN <<Head(chars)>> \o DigitPrefix(Tail(chars))
    ELSE << >>

RECURSIVE DigitsValue(_, _)
DigitsValue(chars, acc) ==
    IF chars = << >> THEN acc
    ELSE DigitsValue(Tail(chars), 10 * acc + DigitVal(Head(chars)))

\* parseFloat of a string: leading white space is skipped, then an optional
\* sign and the longest run of digits are read; << >> stands for NaN and
\* <<n>> for the number n.
ParseFloatText(chars) ==
    LET s    == SkipSpaces(chars)
        neg  == s # << >> /\ Head(s) = "-"
        body == IF s # << >> /\ Head(s) \in {"-", "+"} THEN Tail(s) ELSE s
        ds   == DigitPrefix(body)
    IN  IF ds = << >> THEN << >>
        ELSE IF neg THEN << -DigitsValue(ds, 0) >> ELSE << DigitsValue(ds, 0) >>

\* parseFloat of any value (the argument is converted to a string first)
ParseFloat(v) ==
    CASE v.type = "number" -> << v.val >>
      [] v.type = "text"   -> ParseFloatText(v.val)
      [] OTHER             -> << >>

\* parseFloat(v) || 0 : NaN and 0 are falsy
ParseFloatOr0(v) ==
    LET r == ParseFloat(v) IN IF r = << >> THEN 0 ELSE r[1]

\* !!v for the values an account field takes
Truthy(v) ==
    CASE v.type = "string" -> v.val # ""
      [] v.type = "text"   -> v.val # << >>
      [] v.type = "number" -> v.val # 0
      [] v.type = "null"   -> FALSE
      [] v.type = "undefined" -> FALSE
      [] OTHER             -> TRUE

-----------------------------------------------------------------------------
(* src/types.ts *)

TradeDirection == {"Long", "Short"}

TradeAccount == {"Income Generator", "Speculation", "Trading Lab", "Uncategorized"}

-----------------------------------------------------------------------------
(* src/utils/helpers.ts *)

\* mutant: the parentheses around the price difference are missing
calculatePL_noParens(entryPrice, currentPrice, shareCount, direction) ==
    IF direction = "Long"
    THEN currentPrice - entryPrice * shareCount
    ELSE entryPrice - currentPrice * shareCount

calculatePL(entryPrice, currentPrice, shareCount, direction) ==
    IF direction = "Long"
    THEN (currentPrice - entryPrice) * shareCount
    ELSE (entryPrice - currentPrice) * shareCount

isTradeActive(trade) == trade.status = "active"

isTradeClosed(trade) == trade.status = "closed"

-----------------------------------------------------------------------------
(* Inputs *)

\* What the textarea of the intake dialog may hold: '', ' ', 'buy'
UserInputs == { << >>, <<" ">>, <<"b", "u", "y">> }

\* What the number input of the exit form may hold: the browser keeps the
\* value of <input type="number"> either '' or a valid number: '', '160', '40'
ExitPriceInputs == { << >>, <<"1", "6", "0">>, <<"4", "0">> }

\* Objects JSON.parse may return for the AI response.  The response is not
\* validated against responseSchema, so fields may be absent or non-numeric.
AIResponses ==
    { [account |-> Str("Income Generator"), direction |-> "Long",
       quantity |-> Num(100), entryPrice |-> Num(150),
       positionSize |-> Num(15000)],
      [account |-> Str("Speculation"), direction |-> "Short",
       quantity |-> Num(80), entryPrice |-> Txt(<<"5", "0">>),
       positionSize |-> Num(4000)],
      [account |-> Undefined, direction |-> "Long",
       quantity |-> Num(7), entryPrice |-> Undefined,
       positionSize |-> Num(500)],
      [account |-> Str("Crypto"), direction |-> "Short",
       quantity |-> Num(3), entryPrice |-> Txt(<<"a", "b", "c">>),
       positionSize |-> Num(200)],
      [account |-> Str("Income Generator"), direction |-> "Long",
       quantity |-> Num(2), entryPrice |-> Num(100),
       positionSize |-> Undefined] }

\* The responses whose positionSize / entryPrice is an integer
Proposals ==
    { p \in AIResponses :
        LET e == ParseFloatOr0(p.entryPrice) IN
        e > 0 => ParseFloatOr0(p.positionSize) % e = 0 }

\* Messages of the errors the intake call may end with
ApiKeyError == "API_KEY environment variable not set."

JsonError == "AI response was not valid JSON."

DefaultError == "An error occurred while processing with AI."

\* err.message || DefaultError, for a rejection of generateContent (its
\* message may be empty) and for the JSON.parse failure
IntakeErrors == { JsonError, DefaultError }

-----------------------------------------------------------------------------
(* AIJournalEntryModal.handleConfirm: the new trade *)

\* n.toString().padStart(3, '0')
\* mutant: the count is not padded
PadStart3_noPad(n) == ToString(n)

PadStart3(n) ==
    LET s == ToString(n) IN
    IF n < 10 THEN "00" \o s ELSE IF n < 100 THEN "0" \o s ELSE s

\* mutant: the id is counted from the active trades
TradeId_fromActive(trs) ==
    "TRADE-" \o PadStart3(Len(SelectSeq(trs, isTradeActive)) + 1)

TradeId(trs) == "TRADE-" \o PadStart3(Len(trs) + 1)

\* mutant: the share count is always the proposal's quantity
NewTrade_sharesFromQuantity(parsed, trs) ==
    [ id           |-> TradeId(trs),
      status       |-> "active",
      entryPrice   |-> ParseFloatOr0(parsed.entryPrice),
      positionSize |-> ParseFloatOr0(parsed.positionSize),
      shareCount   |-> parsed.quantity.val,
      direction    |-> parsed.direction,
      source       |-> "AI Suggestion",
      account      |-> IF Truthy(parsed.account) THEN parsed.account.val
                       ELSE "Uncategorized" ]

NewTrade(parsed, trs) ==
    LET entryPrice      == ParseFloatOr0(parsed.entryPrice)
        positionSize    == ParseFloatOr0(parsed.positionSize)
        assignedAccount == IF Truthy(parsed.account) THEN parsed.account.val
                           ELSE "Uncategorized"
    IN  [ id           |-> TradeId(trs),
          status       |-> "active",
          entryPrice   |-> entryPrice,
          positionSize |-> positionSize,
          shareCount   |-> IF entryPrice > 0 THEN positionSize \div entryPrice
                           ELSE parsed.quantity.val,
          direction    |-> parsed.direction,
          source       |-> "AI Suggestion",
          account      |-> assignedAccount ]

-----------------------------------------------------------------------------
(* App.handleAddTrade and DashboardView.handleCloseTrade: the updaters *)

\* prev => [...prev, newTrade]
AppendTrade(prev, newTrade) == Append(prev, newTrade)

\* mutant: an account is never debited below zero
DebitAccounts_floor(accounts, newTrade) ==
    [ i \in DOMAIN accounts |->
        IF /\ accounts[i].name = newTrade.account
           /\ accounts[i].currentCash >= newTrade.positionSize
        THEN [accounts[i] EXCEPT !.currentCash = @ - newTrade.positionSize]
        ELSE accounts[i] ]

\* mutant: every account is debited
DebitAccounts_all(accounts, newTrade) ==
    [ i \in DOMAIN accounts |->
        [accounts[i] EXCEPT !.currentCash = @ - newTrade.positionSize] ]

\* mutant: a trade of no configured account is charged to the first account
DebitAccounts_fallback(accounts, newTrade) ==
    LET known == \E i \in DOMAIN accounts : accounts[i].name = newTrade.account IN
    [ i \in DOMAIN accounts |->
        IF accounts[i].name = newTrade.account \/ (~known /\ i = 1)
        THEN [accounts[i] EXCEPT !.currentCash = @ - newTrade.positionSize]
        ELSE accounts[i] ]

\* prev.accounts.map(acc => acc.name === newTrade.account ? debited : acc)
DebitAccounts(accounts, newTrade) ==
    [ i \in DOMAIN accounts |->
        IF accounts[i].name = newTrade.account
        THEN [accounts[i] EXCEPT !.currentCash = @ - newTrade.positionSize]
        ELSE accounts[i] ]

\* mutant: the active record is filtered out and the closed one is dropped
ReplaceTrade_removes(prev, closedTradeData) ==
    SelectSeq(prev, LAMBDA t : t.id # closedTradeData.id)

\* mutant: the closed record is added instead of replacing the active one
ReplaceTrade_appends(prev, closedTradeData) == Append(prev, closedTradeData)

\* prev => prev.map(t => t.id === closedTradeData.id ? closedTradeData : t)
ReplaceTrade(prev, closedTradeData) ==
    [ i \in DOMAIN prev |->
        IF prev[i].id = closedTradeData.id THEN closedTradeData ELSE prev[i] ]

RealizedPL(closedTrade) ==
    calculatePL(closedTrade.entryPrice, closedTrade.exitData.exitPrice,
                closedTrade.shareCount, closedTrade.direction)

\* mutant: the proceeds are credited to every account
CreditAccounts_everyAccount(accounts, closedTradeData, pl) ==
    [ i \in DOMAIN accounts |->
        [accounts[i] EXCEPT
           !.currentCash = @ + closedTradeData.positionSize + pl] ]

\* mutant: the realized P/L is not credited
CreditAccounts_withoutPL(accounts, closedTradeData, pl) ==
    [ i \in DOMAIN accounts |->
        IF accounts[i].name = closedTradeData.account
        THEN [accounts[i] EXCEPT !.currentCash = @ + closedTradeData.positionSize]
        ELSE accounts[i] ]

\* mutant: the committed capital is not given back
CreditAccounts_onlyPL(accounts, closedTradeData, pl) ==
    [ i \in DOMAIN accounts |->
        IF accounts[i].name = closedTradeData.account
        THEN [accounts[i] EXCEPT !.currentCash = @ + pl]
        ELSE accounts[i] ]

\* prev.accounts.map(acc => acc.name === closedTradeData.account ? credited : acc)
CreditAccounts(accounts, closedTradeData, pl) ==
    [ i \in DOMAIN accounts |->
        IF accounts[i].name = closedTradeData.account
        THEN [accounts[i] EXCEPT
                !.currentCash = @ + closedTradeData.positionSize + pl]
        ELSE accounts[i] ]

-----------------------------------------------------------------------------
(* TradeExitForm *)

InitialForm == [exitPrice |-> << >>]

\* !form.exitPrice
ExitPriceMissing(f) == f.exitPrice = << >>

\* mutant: exitData is attached but the status is not flipped
ClosedTradeOf_keepsStatus(trade, f) ==
    [exitData |-> [exitPrice |-> ParseFloatText(f.exitPrice)[1]]] @@ trade

\* mutant: the closed record no longer carries the committed capital
ClosedTradeOf_resized(trade, f) ==
    [status       |-> "closed",
     positionSize |-> 0,
     exitData     |-> [exitPrice |-> ParseFloatText(f.exitPrice)[1]]] @@ trade

\* { ...trade, status: 'closed', exitData: { exitPrice: parseFloat(...) } }
ClosedTradeOf(trade, f) ==
    [status   |-> "closed",
     exitData |-> [exitPrice |-> ParseFloatText(f.exitPrice)[1]]] @@ trade

\* mutant: a missing exit price is read as 0 instead of being rejected
ExitSubmission_defaultPrice(trade, f) ==
    [rejected    |-> FALSE,
     closedTrade |-> [status   |-> "closed",
                      exitData |-> [exitPrice |->
                          LET r == ParseFloatText(f.exitPrice) IN
                          IF r = << >> THEN 0 ELSE r[1]]] @@ trade]

\* handleSubmit: either the alert, or the closed record given to
\* onConfirmClose
ExitSubmission(trade, f) ==
    IF ExitPriceMissing(f)
    THEN [rejected |-> TRUE, alert |-> "Exit price is required."]
    ELSE [rejected |-> FALSE, closedTrade |-> ClosedTradeOf(trade, f)]

-----------------------------------------------------------------------------
(* Initial state: nothing stored yet, every component freshly mounted *)

InitialSettings ==
    [ portfolioStartingValue |-> 22000,
      riskPerTrade           |-> 2,
      maxPositionSize        |-> 30,
      minCashPercent         |-> 5,
      accounts |-> <<
        [name |-> "Income Generator", startingValue |-> 17000, currentCash |-> 17000],
        [name |-> "Speculation",      startingValue |-> 3000,  currentCash |-> 3000],
        [name |-> "Trading Lab",      startingValue |-> 2000,  currentCash |-> 2000] >> ]

NoCalls == [live |-> 0, orphaned |-> 0]

\* no function is being evaluated on its own
NoProbe == [fn |-> "none"]

Init ==
    /\ trades = << >>
    /\ settings = InitialSettings
    /\ activeView = "dashboard"
    /\ isJournalEntryOpen = FALSE
    /\ userInput = << >>
    /\ isLoading = FALSE
    /\ error = ""
    /\ parsedTrade = Null
    /\ calls = NoCalls
    /\ tradeToClose = Null
    /\ form = InitialForm
    /\ alertMsg = ""
    /\ apiKey \in BOOLEAN
    /\ cashAtOpen = << >>
    /\ probe = NoProbe

\* window.alert blocks the event loop until it is dismissed
Idle == alertMsg = ""

ledgerVars == <<trades, settings>>

envVars == <<apiKey, probe>>

intakeVars == <<isJournalEntryOpen, userInput, isLoading, error, parsedTrade, calls>>

exitVars == <<tradeToClose, form>>

-----------------------------------------------------------------------------
(* History variable cashAtOpen: no action reads it.  cashAtOpen[i] is      *)
(* <<c>> when c was the currentCash of the account of trades[i] right      *)
(* before trades[i] was opened and no other trade of that account has been *)
(* opened or closed since; it is << >> otherwise.                          *)

CashOf(accounts, name) ==
    LET idx == { i \in DOMAIN accounts : accounts[i].name = name } IN
    IF idx = {} THEN << >> ELSE << accounts[CHOOSE i \in idx : TRUE].currentCash >>

RecordOpen(hist, trs, accounts, newTrade) ==
    Append([ i \in DOMAIN hist |->
               IF trs[i].account = newTrade.account THEN << >> ELSE hist[i] ],
           CashOf(accounts, newTrade.account))

RecordClose(hist, trs, closedTrade) ==
    [ i \in DOMAIN hist |->
        IF trs[i].account = closedTrade.account /\ trs[i].id # closedTrade.id
        THEN << >> ELSE hist[i] ]

-----------------------------------------------------------------------------
(* App *)

\* Unmounting AIJournalEntryModal discards its state; the calls it started
\* still settle, on a component that is gone
UnmountJournalEntry ==
    /\ isJournalEntryOpen' = FALSE
    /\ userInput' = << >>
    /\ isLoading' = FALSE
    /\ error' = ""
    /\ parsedTrade' = Null
    /\ calls' = [live |-> 0, orphaned |-> calls.orphaned + calls.live]

\* header button: setJournalEntryOpen(true)
OpenJournalEntry ==
    /\ Idle
    /\ ~isJournalEntryOpen
    /\ isJournalEntryOpen' = TRUE
    /\ UNCHANGED <<ledgerVars, activeView, userInput, isLoading, error,
                   parsedTrade, calls, exitVars, alertMsg, envVars, cashAtOpen>>

\* onClose of the dialog (Cancel, or the close icon of Modal)
CloseJournalEntry ==
    /\ Idle
    /\ isJournalEntryOpen
    /\ calls.orphaned + calls.live <= MaxOrphaned
    /\ UnmountJournalEntry
    /\ UNCHANGED <<ledgerVars, activeView, exitVars, alertMsg, envVars, cashAtOpen>>

\* sidebar: setActiveView(item.id); DashboardView is mounted for 'dashboard'
\* only, and unmounting it discards tradeToClose and the exit form
SetActiveView(view) ==
    /\ Idle
    /\ view # activeView
    /\ activeView' = view
    /\ tradeToClose' = Null
    /\ form' = InitialForm
    /\ UNCHANGED <<ledgerVars, intakeVars, alertMsg, envVars, cashAtOpen>>

\* handleAddTrade(newTrade)
handleAddTrade(newTrade) ==
    /\ trades' = AppendTrade(trades, newTrade)
    /\ settings' = [settings EXCEPT !.accounts = DebitAccounts(@, newTrade)]
    /\ cashAtOpen' = RecordOpen(cashAtOpen, trades, settings.accounts, newTrade)
    /\ UnmountJournalEntry

-----------------------------------------------------------------------------
(* AIJournalEntryModal *)

\* textarea onChange (rendered while there is no parsedTrade)
ChangeUserInput(text) ==
    /\ Idle
    /\ isJournalEntryOpen
    /\ parsedTrade = Null
    /\ text # userInput
    /\ userInput' = text
    /\ UNCHANGED <<ledgerVars, activeView, isJournalEntryOpen, isLoading, error,
                   parsedTrade, calls, exitVars, alertMsg, envVars, cashAtOpen>>

\* mutant: the button is not disabled while a call is outstanding
ProcessEnabled_ignoresLoading ==
    /\ isJournalEntryOpen
    /\ parsedTrade = Null
    /\ Trim(userInput) # << >>

\* the 'Process with AI' button is rendered and not disabled
ProcessEnabled ==
    /\ isJournalEntryOpen
    /\ parsedTrade = Null
    /\ ~(isLoading \/ Trim(userInput) = << >>)

\* handleProcess up to its await.  Without API_KEY processTradeWithAI throws
\* before any request is made: the catch and finally blocks run in the same
\* task, before any other handler.
handleProcess ==
    /\ Idle
    /\ ProcessEnabled
    /\ Trim(userInput) # << >>
    /\ parsedTrade' = Null
    /\ IF apiKey
       THEN /\ isLoading' = TRUE
            /\ error' = ""
            /\ calls' = [calls EXCEPT !.live = @ + 1]
       ELSE /\ isLoading' = FALSE
            /\ error' = ApiKeyError
            /\ calls' = calls
    /\ UNCHANGED <<ledgerVars, activeView, isJournalEntryOpen, userInput,
                   exitVars, alertMsg, envVars, cashAtOpen>>

\* the call of the mounted dialog resolves and JSON.parse succeeds
CallResolves(result) ==
    /\ Idle
    /\ calls.live > 0
    /\ calls' = [calls EXCEPT !.live = @ - 1]
    /\ parsedTrade' = result
    /\ isLoading' = FALSE
    /\ UNCHANGED <<ledgerVars, activeView, isJournalEntryOpen, userInput, error,
                   exitVars, alertMsg, envVars, cashAtOpen>>

\* mutant: the finally block is missing
CallFails_keepsLoading(message) ==
    /\ Idle
    /\ calls.live > 0
    /\ calls' = [calls EXCEPT !.live = @ - 1]
    /\ error' = message
    /\ UNCHANGED <<ledgerVars, activeView, isJournalEntryOpen, userInput,
                   isLoading, parsedTrade, exitVars, alertMsg, envVars, cashAtOpen>>

\* the call of the mounted dialog rejects, or JSON.parse throws
CallFails(message) ==
    /\ Idle
    /\ calls.live > 0
    /\ calls' = [calls EXCEPT !.live = @ - 1]
    /\ error' = message
    /\ isLoading' = FALSE
    /\ UNCHANGED <<ledgerVars, activeView, isJournalEntryOpen, userInput,
                   parsedTrade, exitVars, alertMsg, envVars, cashAtOpen>>

\* mutant: the result of a call is applied to whichever dialog is mounted
OrphanedCallSettles_applies ==
    /\ Idle
    /\ calls.orphaned > 0
    /\ calls' = [calls EXCEPT !.orphaned = @ - 1]
    /\ isJournalEntryOpen
    /\ parsedTrade' \in Proposals
    /\ UNCHANGED <<ledgerVars, activeView, isJournalEntryOpen, userInput,
                   isLoading, error, exitVars, alertMsg, envVars, cashAtOpen>>

\* a call settles after its dialog was unmounted: its setters change nothing
OrphanedCallSettles ==
    /\ Idle
    /\ calls.orphaned > 0
    /\ calls' = [calls EXCEPT !.orphaned = @ - 1]
    /\ UNCHANGED <<ledgerVars, activeView, isJournalEntryOpen, userInput,
                   isLoading, error, parsedTrade, exitVars, alertMsg, envVars,
                   cashAtOpen>>

\* 'Back': setParsedTrade(null)
BackToInput ==
    /\ Idle
    /\ isJournalEntryOpen
    /\ parsedTrade # Null
    /\ parsedTrade' = Null
    /\ UNCHANGED <<ledgerVars, activeView, isJournalEntryOpen, userInput,
                   isLoading, error, calls, exitVars, alertMsg, envVars,
                   cashAtOpen>>

\* 'Confirm & Add Trade': handleConfirm, which ends in onAddTrade(newTrade)
handleConfirm ==
    /\ Idle
    /\ isJournalEntryOpen
    /\ parsedTrade # Null
    /\ Len(trades) < MaxTrades
    /\ calls.orphaned + calls.live <= MaxOrphaned
    /\ handleAddTrade(NewTrade(parsedTrade, trades))
    /\ UNCHANGED <<activeView, exitVars, alertMsg, envVars>>

-----------------------------------------------------------------------------
(* DashboardView and TradeExitForm *)

activeTrades == SelectSeq(trades, isTradeActive)

closedTrades == SelectSeq(trades, isTradeClosed)

\* mutant: the filter on the account name is missing
accountTrades_unfiltered(account) == activeTrades

\* the trades AccountDashboard lists for an account, each with a PositionCard
accountTrades(account) ==
    SelectSeq(activeTrades, LAMBDA t : t.account = account.name)

\* trade.currentPrice || trade.entryPrice
MarkPrice(trade) ==
    IF "currentPrice" \in DOMAIN trade /\ trade.currentPrice # 0
    THEN trade.currentPrice
    ELSE trade.entryPrice

RECURSIVE SumPL(_)
SumPL(trs) ==
    IF trs = << >> THEN 0
    ELSE calculatePL(Head(trs).entryPrice, MarkPrice(Head(trs)),
                     Head(trs).shareCount, Head(trs).direction)
           + SumPL(Tail(trs))

RECURSIVE SumPositionSize(_)
SumPositionSize(trs) ==
    IF trs = << >> THEN 0
    ELSE Head(trs).positionSize + SumPositionSize(Tail(trs))

\* AccountDashboard: positionsValue accumulates positionSize + pl, openPL pl
AccountDashboard(account, trs) ==
    LET openPL         == SumPL(trs)
        positionsValue == SumPositionSize(trs) + openPL
    IN  [totalValue |-> account.currentCash + positionsValue,
         totalPL    |-> openPL]

\* the trades that have a 'Close' button on screen
ListedTrades ==
    IF activeView = "dashboard"
    THEN UNION { { accountTrades(settings.accounts[a])[k] :
                     k \in DOMAIN accountTrades(settings.accounts[a]) } :
                 a \in DOMAIN settings.accounts }
    ELSE {}

\* PositionCard 'Close': onOpenCloseModal(trade) = setTradeToClose(trade).
\* A TradeExitForm that is already mounted keeps its form state.
OpenCloseModal(trade) ==
    /\ Idle
    /\ trade \in ListedTrades
    /\ trade # tradeToClose
    /\ tradeToClose' = trade
    /\ form' = IF tradeToClose # Null THEN form ELSE InitialForm
    /\ UNCHANGED <<ledgerVars, activeView, intakeVars, alertMsg, envVars, cashAtOpen>>

\* onClose of the exit form: setTradeToClose(null)
CloseExitForm ==
    /\ Idle
    /\ tradeToClose # Null
    /\ tradeToClose' = Null
    /\ form' = InitialForm
    /\ UNCHANGED <<ledgerVars, activeView, intakeVars, alertMsg, envVars, cashAtOpen>>

\* handleChange of the exit price input
handleChange(text) ==
    /\ Idle
    /\ tradeToClose # Null
    /\ text # form.exitPrice
    /\ form' = [form EXCEPT !.exitPrice = text]
    /\ UNCHANGED <<ledgerVars, activeView, intakeVars, tradeToClose, alertMsg,
                   envVars, cashAtOpen>>

\* mutant: the exit form is left open after the close
handleCloseTrade_keepsForm(closedTradeData) ==
    /\ trades' = ReplaceTrade(trades, closedTradeData)
    /\ settings' = [settings EXCEPT !.accounts =
                      CreditAccounts(@, closedTradeData, RealizedPL(closedTradeData))]
    /\ cashAtOpen' = RecordClose(cashAtOpen, trades, closedTradeData)
    /\ UNCHANGED <<tradeToClose, form>>

\* handleCloseTrade(closedTradeData)
handleCloseTrade(closedTradeData) ==
    /\ trades' = ReplaceTrade(trades, closedTradeData)
    /\ settings' = [settings EXCEPT !.accounts =
                      CreditAccounts(@, closedTradeData, RealizedPL(closedTradeData))]
    /\ cashAtOpen' = RecordClose(cashAtOpen, trades, closedTradeData)
    /\ tradeToClose' = Null
    /\ form' = InitialForm

\* the submit event of the exit form: handleSubmit
handleSubmit ==
    /\ Idle
    /\ tradeToClose # Null
    /\ LET sub == ExitSubmission(tradeToClose, form) IN
       IF sub.rejected
       THEN /\ alertMsg' = sub.alert
            /\ UNCHANGED <<ledgerVars, exitVars, cashAtOpen>>
       ELSE /\ handleCloseTrade(sub.closedTrade)
            /\ alertMsg' = alertMsg
    /\ UNCHANGED <<activeView, intakeVars, envVars>>

\* the user dismisses the alert
DismissAlert ==
    /\ alertMsg # ""
    /\ alertMsg' = ""
    /\ UNCHANGED <<ledgerVars, activeView, intakeVars, exitVars, envVars, cashAtOpen>>

-----------------------------------------------------------------------------

Views == {"dashboard", "history", "analytics"}

Next ==
    \/ OpenJournalEntry
    \/ CloseJournalEntry
    \/ \E view \in Views : SetActiveView(view)
    \/ \E text \in UserInputs : ChangeUserInput(text)
    \/ handleProcess
    \/ \E result \in Proposals : CallResolves(result)
    \/ \E message \in IntakeErrors : CallFails(message)
    \/ OrphanedCallSettles
    \/ BackToInput
    \/ handleConfirm
    \/ \E trade \in ListedTrades : OpenCloseModal(trade)
    \/ CloseExitForm
    \/ \E text \in ExitPriceInputs : handleChange(text)
    \/ handleSubmit
    \/ DismissAlert

Spec == Init /\ [][Next]_vars

-----------------------------------------------------------------------------
(* Vocabulary of the properties *)

AccountIdx == DOMAIN settings.accounts

Configured(name) == \E a \in AccountIdx : settings.accounts[a].name = name

\* this step created a trade (it is the last one of trades')
Creates == Len(trades') = Len(trades) + 1

\* this step turned the stored trade i from active into closed
Closes(i) ==
    /\ i \in DOMAIN trades /\ i \in DOMAIN trades'
    /\ trades[i].status = "active"
    /\ trades'[i].status = "closed"

\* profitLoss as section 4.1 of the specification states it
ProfitLoss(entryPrice, markPrice, shareCount, direction) ==
    IF direction = "Long" THEN (markPrice - entryPrice) * shareCount
    ELSE (entryPrice - markPrice) * shareCount

PLOf(t) == ProfitLoss(t.entryPrice, t.exitData.exitPrice, t.shareCount, t.direction)

-----------------------------------------------------------------------------
\* C1: a step that opens a position for a trade of a configured account
\* decreases that account's currentCash by exactly the trade's positionSize
\* and leaves the currentCash of every other account unchanged.
C1_OpenDebitsItsAccount ==
    [][ Creates =>
          LET t == trades'[Len(trades')] IN
          Configured(t.account) =>
            \A a \in AccountIdx :
              settings'.accounts[a].currentCash =
                IF settings.accounts[a].name = t.account
                THEN settings.accounts[a].currentCash - t.positionSize
                ELSE settings.accounts[a].currentCash ]_vars

C1_Witness ==
    /\ Len(trades) = 1
    /\ trades[1].account = "Income Generator"
    /\ trades[1].status = "active"
    /\ trades[1].positionSize = 15000
    /\ settings.accounts[1].currentCash = 2000
    /\ settings.accounts[2].currentCash = 3000

\* C2: a step that closes a trade of a configured account increases that
\* account's currentCash by exactly positionSize + profitLoss(entryPrice,
\* exitPrice, shareCount, direction) and leaves every other account's
\* currentCash unchanged.
C2_CloseCreditsItsAccount ==
    [][ \A i \in DOMAIN trades :
          (Closes(i) /\ Configured(trades'[i].account)) =>
            \A a \in AccountIdx :
              settings'.accounts[a].currentCash =
                IF settings.accounts[a].name = trades'[i].account
                THEN settings.accounts[a].currentCash
                       + trades'[i].positionSize + PLOf(trades'[i])
                ELSE settings.accounts[a].currentCash ]_vars

C2_Witness ==
    /\ Len(trades) = 1
    /\ trades[1].account = "Speculation"
    /\ trades[1].status = "closed"
    /\ trades[1].exitData.exitPrice = 40
    /\ settings.accounts[2].currentCash = 3800
    /\ settings.accounts[1].currentCash = 17000

\* C3: when a trade of a configured account is closed and no other trade of
\* that account was opened or closed since it was opened, the account's
\* currentCash is its value before the open plus the realized P/L; right
\* after the open it is the value before the open minus positionSize.
C3_CashConservation ==
    [][ /\ Creates =>
             LET n == Len(trades') IN
             \A a \in AccountIdx :
               settings.accounts[a].name = trades'[n].account =>
                 /\ cashAtOpen'[n] = << settings.accounts[a].currentCash >>
                 /\ settings'.accounts[a].currentCash =
                      cashAtOpen'[n][1] - trades'[n].positionSize
        /\ \A i \in DOMAIN trades :
             (Closes(i) /\ cashAtOpen[i] # << >>) =>
               \A a \in AccountIdx :
                 settings.accounts[a].name = trades'[i].account =>
                   settings'.accounts[a].currentCash =
                     cashAtOpen[i][1] + PLOf(trades'[i]) ]_vars

C3_Witness ==
    \E i \in DOMAIN trades :
      /\ Len(trades) = 2
      /\ trades[i].status = "closed"
      /\ trades[i].account = "Income Generator"
      /\ cashAtOpen[i] = << 17000 >>
      /\ PLOf(trades[i]) = 1000
      /\ settings.accounts[1].currentCash = 18000

\* C4: a trade whose account is no configured account (Uncategorized, or a
\* name the settings do not know) is added to the trade set without an
\* error and without changing any account; handing such a trade to the
\* close operation replaces its record and credits no account.
C4_UnmatchedOpen ==
    Creates =>
      LET t == trades'[Len(trades')] IN
      ~Configured(t.account) =>
        /\ settings' = settings
        /\ trades' = Append(trades, t)
        /\ t.status = "active"
        /\ alertMsg' = "" /\ error' = ""

C4_UnmatchedClose ==
    \A i \in DOMAIN trades :
      (trades[i].status = "active" /\ ~Configured(trades[i].account)) =>
        \A x \in ExitPriceInputs \ {<< >>} :
          LET sub == ExitSubmission(trades[i], [exitPrice |-> x])
              ct  == sub.closedTrade
          IN  /\ ~sub.rejected
              /\ CreditAccounts(settings.accounts, ct, RealizedPL(ct))
                   = settings.accounts
              /\ ReplaceTrade(trades, ct) = [trades EXCEPT ![i] = ct]
              /\ ct.status = "closed"

\* C4: both halves: the open, in every step that creates such a trade, and
\* the close, for every stored trade of no configured account.
C4_UnmatchedAccountSkipsLedger ==
    [] C4_UnmatchedClose /\ [][C4_UnmatchedOpen]_vars

C4_Witness ==
    /\ Len(trades) = 2
    /\ trades[1].account = "Uncategorized" /\ trades[1].positionSize = 500
    /\ trades[2].account = "Crypto" /\ trades[2].positionSize = 200
    /\ settings = InitialSettings

\* C5: once a trade is closed, after every further step the record with its
\* id is still closed and carries the same exitData.
C5_ClosedIsFinal ==
    [][ \A i \in DOMAIN trades :
          trades[i].status = "closed" =>
            /\ \E j \in DOMAIN trades' : trades'[j].id = trades[i].id
            /\ \A j \in DOMAIN trades' :
                 trades'[j].id = trades[i].id =>
                   /\ trades'[j].status = "closed"
                   /\ trades'[j].exitData = trades[i].exitData ]_vars

C5_Witness ==
    /\ Len(trades) = 2
    /\ trades[1].status = "closed" /\ trades[2].status = "closed"
    /\ trades[1].exitData # trades[2].exitData

\* C6: no two stored trades share an id.
C6_OneRecordPerId ==
    \A i, j \in DOMAIN trades : trades[i].id = trades[j].id => i = j

C6_Witness ==
    /\ Len(trades) = 2
    /\ trades[1].id = "TRADE-001" /\ trades[2].id = "TRADE-002"
    /\ trades[1].status = "active" /\ trades[2].status = "closed"

\* C7: every stored trade is exactly one of active and closed, it is closed
\* exactly when it carries exitData, and activeTrades and closedTrades are
\* disjoint and cover the trade set.
C7_ActiveClosedPartition ==
    /\ \A i \in DOMAIN trades :
         /\ isTradeActive(trades[i]) # isTradeClosed(trades[i])
         /\ (trades[i].status = "closed") <=> ("exitData" \in DOMAIN trades[i])
    /\ Len(activeTrades) + Len(closedTrades) = Len(trades)
    /\ \A k \in DOMAIN activeTrades : \A l \in DOMAIN closedTrades :
         activeTrades[k] # closedTrades[l]
    /\ \A i \in DOMAIN trades :
         \/ \E k \in DOMAIN activeTrades : activeTrades[k] = trades[i]
         \/ \E l \in DOMAIN closedTrades : closedTrades[l] = trades[i]

C7_Witness ==
    /\ Len(trades) = 2
    /\ Len(activeTrades) = 1 /\ Len(closedTrades) = 1
    /\ trades[1].status = "closed" /\ trades[2].status = "active"

\* C8: no step changes the id, positionSize, entryPrice, shareCount,
\* direction or account of a stored trade; in particular the closed record
\* that replaces an active one keeps them.
C8_EntryFieldsImmutable ==
    [][ \A i \in DOMAIN trades :
          /\ i \in DOMAIN trades'
          /\ trades'[i].id = trades[i].id
          /\ trades'[i].positionSize = trades[i].positionSize
          /\ trades'[i].entryPrice = trades[i].entryPrice
          /\ trades'[i].shareCount = trades[i].shareCount
          /\ trades'[i].direction = trades[i].direction
          /\ trades'[i].account = trades[i].account ]_vars

C8_Witness ==
    /\ Len(trades) = 1
    /\ trades[1].status = "closed"
    /\ trades[1] = [status |-> "closed", exitData |-> [exitPrice |-> 160]]
                     @@ NewTrade(CHOOSE p \in Proposals :
                                   p.positionSize = Num(15000), << >>)

\* C9: an account's currentCash changes only in a step that opens exactly
\* one trade of the account (the debit) or turns exactly one active trade of
\* the account into a closed one (the credit), every other record staying as
\* it is; a closed trade is therefore never credited again.
C9_OneDebitOneCredit ==
    [][ \A a \in AccountIdx :
          settings'.accounts[a].currentCash # settings.accounts[a].currentCash =>
            \/ /\ Creates
               /\ SubSeq(trades', 1, Len(trades)) = trades
               /\ trades'[Len(trades')].account = settings.accounts[a].name
               /\ settings'.accounts[a].currentCash =
                    settings.accounts[a].currentCash
                      - trades'[Len(trades')].positionSize
            \/ /\ Len(trades') = Len(trades)
               /\ \E i \in DOMAIN trades :
                    /\ Closes(i)
                    /\ trades[i].account = settings.accounts[a].name
                    /\ \A j \in DOMAIN trades : j # i => trades'[j] = trades[j]
                    /\ settings'.accounts[a].currentCash =
                         settings.accounts[a].currentCash
                           + trades[i].positionSize + PLOf(trades'[i]) ]_vars

C9_Witness ==
    /\ Len(trades) = 2
    /\ trades[1].account = "Income Generator" /\ trades[1].status = "closed"
    /\ trades[2].account = "Income Generator" /\ trades[2].status = "closed"
    /\ trades[1].positionSize = 15000 /\ trades[2].positionSize = 15000

\* C10: a submit of the exit form with no exit price closes no trade; it
\* raises the alert and leaves the trade set, the settings, the trade being
\* closed and the form as they are.  The alert is raised for no other cause.
C10_EmptyExitPriceRejected ==
    [][ /\ (tradeToClose # Null /\ form.exitPrice = << >>) =>
             /\ \A i \in DOMAIN trades :
                  trades[i].status = "active" =>
                    i \in DOMAIN trades' /\ trades'[i].status = "active"
             /\ settings'.accounts = settings.accounts \/ Creates
        /\ (alertMsg = "" /\ alertMsg' # "") =>
             /\ tradeToClose # Null /\ form.exitPrice = << >>
             /\ UNCHANGED <<trades, settings, tradeToClose, form>> ]_vars

C10_Witness ==
    /\ alertMsg = "Exit price is required."
    /\ tradeToClose # Null
    /\ form.exitPrice = << >>
    /\ \E i \in DOMAIN trades : trades[i] = tradeToClose /\ trades[i].status = "active"

\* C11: when the intake call fails (no API key, a rejected request, or a
\* response that is not JSON) the step creates no trade and changes no
\* account; afterwards the error is recorded, the dialog is still open and
\* not loading, parsedTrade is null (no Confirm button), and handleProcess
\* can be started again as soon as the textarea holds text.
C11_FailureState ==
    error # "" =>
      /\ isJournalEntryOpen
      /\ ~isLoading
      /\ parsedTrade = Null
      /\ calls.live = 0
      /\ ~ENABLED handleConfirm
      /\ (Idle /\ Trim(userInput) # << >>) => ENABLED handleProcess

C11_FailureStep ==
    (error' # "" /\ error' # error) =>
      /\ trades' = trades
      /\ settings' = settings
      /\ apiKey => error' \in IntakeErrors
      /\ ~apiKey => error' = ApiKeyError

C11_IntakeFailureIsRecoverable ==
    [] C11_FailureState /\ [][C11_FailureStep]_vars

C11_Witness ==
    /\ error = JsonError
    /\ Len(trades) = 1
    /\ Trim(userInput) # << >>
    /\ isJournalEntryOpen

\* C12: the open dialog has at most one call outstanding; while it has one
\* the dialog is loading and handleProcess cannot be started.
C12_OneCallPerDialog ==
    /\ calls.live <= 1
    /\ calls.live = 1 =>
         /\ isJournalEntryOpen
         /\ isLoading
         /\ ~ENABLED handleProcess

C12_Witness ==
    /\ calls.live = 1
    /\ calls.orphaned = 1
    /\ Trim(userInput) # << >>
    /\ isLoading

\* C13: a call that settles after its dialog was dismissed changes nothing
\* but the set of outstanding calls: no trade, no account, and no state of
\* the dialog that is open by then.
C13_OrphanedResultDiscarded ==
    [][ calls'.orphaned < calls.orphaned =>
          UNCHANGED <<trades, settings, isJournalEntryOpen, userInput,
                      isLoading, error, parsedTrade>> ]_vars

C13_Witness ==
    /\ isJournalEntryOpen
    /\ calls.orphaned = 1
    /\ calls.live = 0
    /\ parsedTrade = Null
    /\ ~isLoading
    /\ error = ""

\* C14: no step removes a trade: a step either leaves the number of records
\* as it is or adds one active record at the end; a close changes no count,
\* and a closed record stays in the trade set.
C14_NoDeletion ==
    [][ /\ Len(trades') \in {Len(trades), Len(trades) + 1}
        /\ Creates =>
             /\ SubSeq(trades', 1, Len(trades)) = trades
             /\ trades'[Len(trades')].status = "active"
        /\ \A i \in DOMAIN trades :
             /\ Closes(i) => Len(trades') = Len(trades)
             /\ trades[i].status = "closed" =>
                  i \in DOMAIN trades' /\ trades'[i] = trades[i] ]_vars

C14_Witness ==
    /\ Len(trades) = 2
    /\ trades[1].status = "closed" /\ trades[1].exitData.exitPrice = 40
    /\ trades[2].status = "active"
    /\ trades[1].account = "Speculation"

-----------------------------------------------------------------------------
(* The pure functions on their own: the initial state draws the arguments, *)
(* the one step applies the function.  No event handler runs.              *)

programVars == <<trades, settings, activeView, isJournalEntryOpen, userInput,
                 isLoading, error, parsedTrade, calls, tradeToClose, form,
                 alertMsg, apiKey, cashAtOpen>>

Prices == 0..MaxPrice

ShareCounts == 0..MaxShares

\* n stored trades, as handleConfirm receives them in its trades prop
StoredTrades(n) == [ i \in 1..n |-> [status |-> "active"] ]

CalculatePLInputs ==
    [ fn : {"calculatePL"}, applied : {FALSE}, entryPrice : Prices,
      currentPrice : Prices, shareCount : ShareCounts,
      direction : TradeDirection ]

TradeIdInputs ==
    [ fn : {"TradeId"}, applied : {FALSE}, count : 0..MaxStored ]

ApplyCalculatePL ==
    /\ probe.fn = "calculatePL" /\ ~probe.applied
    /\ probe' = [applied |-> TRUE,
                 result  |-> calculatePL(probe.entryPrice, probe.currentPrice,
                                         probe.shareCount, probe.direction)]
                  @@ probe
    /\ UNCHANGED programVars

ApplyTradeId ==
    /\ probe.fn = "TradeId" /\ ~probe.applied
    /\ probe' = [applied |-> TRUE,
                 result  |-> TradeId(StoredTrades(probe.count))] @@ probe
    /\ UNCHANGED programVars

-----------------------------------------------------------------------------
(* AnalyticsView and AccountPerformanceCard *)

\* data[trade.account || TradeAccount.Uncategorized].push(trade)
\* (a closed trade was listed under a configured account when it was closed,
\* so its account is one of the keys)
accountData(closed) ==
    [ a \in TradeAccount |-> SelectSeq(closed, LAMBDA t : t.account = a) ]

RECURSIVE TotalPL(_)
TotalPL(trs) ==
    IF trs = << >> THEN 0 ELSE RealizedPL(Head(trs)) + TotalPL(Tail(trs))

Wins(trs) == Len(SelectSeq(trs, LAMBDA t : RealizedPL(t) > 0))

\* mutant: the early return for an empty list is missing
stats_noGuard(trs) ==
    LET totalTrades == Len(trs) IN
    [totalTrades |-> totalTrades,
     winRate     |-> Times(Divide(Wins(trs), totalTrades), 100),
     totalPL     |-> TotalPL(trs),
     avgPL       |-> Divide(TotalPL(trs), totalTrades)]

\* mutant: a trade that breaks even counts as a win
stats_zeroWins(trs) ==
    LET totalTrades == Len(trs)
        wins        == Len(SelectSeq(trs, LAMBDA t : RealizedPL(t) >= 0)) IN
    IF totalTrades = 0
    THEN [totalTrades |-> 0, winRate |-> Whole(0), totalPL |-> 0, avgPL |-> Whole(0)]
    ELSE [totalTrades |-> totalTrades,
          winRate     |-> Times(Divide(wins, totalTrades), 100),
          totalPL     |-> TotalPL(trs),
          avgPL       |-> Divide(TotalPL(trs), totalTrades)]

\* AccountPerformanceCard.stats
stats(trs) ==
    LET totalTrades == Len(trs) IN
    IF totalTrades = 0
    THEN [totalTrades |-> 0, winRate |-> Whole(0), totalPL |-> 0, avgPL |-> Whole(0)]
    ELSE [totalTrades |-> totalTrades,
          winRate     |-> Times(Divide(Wins(trs), totalTrades), 100),
          totalPL     |-> TotalPL(trs),
          avgPL       |-> Divide(TotalPL(trs), totalTrades)]

\* the cards AnalyticsView renders: every account but Uncategorized
accountCards(closed) ==
    [ a \in TradeAccount \ {"Uncategorized"} |-> stats(accountData(closed)[a]) ]

\* the keys of data, in the order in which they were inserted
RECURSIVE SourceNames(_, _)
SourceNames(closed, seen) ==
    IF closed = << >> THEN seen
    ELSE SourceNames(Tail(closed),
                     IF \E k \in DOMAIN seen : seen[k] = Head(closed).source
                     THEN seen ELSE Append(seen, Head(closed).source))

\* AnalyticsView.sourceData
sourceData(closed) ==
    LET names == SourceNames(closed, << >>) IN
    [ k \in DOMAIN names |->
        LET trs  == SelectSeq(closed, LAMBDA t : t.source = names[k])
            wins == Wins(trs)
        IN  [name    |-> names[k],
             trades  |-> Len(trs),
             winRate |-> IF Len(trs) > 0 THEN Times(Divide(wins, Len(trs)), 100)
                         ELSE Whole(0)] ]

-----------------------------------------------------------------------------
(* The views on their own *)

SeqsUpTo(S, n) == UNION { [1..k -> S] : k \in 0..n }

\* closed trades realizing +100, -50, +30 and 0
ClosedSamples ==
    { [status |-> "closed", entryPrice |-> 100, positionSize |-> 1000,
       shareCount |-> 10, direction |-> "Long", account |-> a, source |-> src,
       exitData |-> [exitPrice |-> x]] :
      a \in {"Income Generator", "Speculation"},
      src \in {"AI Suggestion", "YouTube"},
      x \in {110, 95, 103, 100} }

UnmarkedSamples ==
    { [status |-> "active", entryPrice |-> 100, positionSize |-> 1000,
       shareCount |-> 10, direction |-> d, account |-> "Income Generator"] :
      d \in TradeDirection }

\* open trades without and with a currentPrice
OpenSamples ==
    UnmarkedSamples
      \cup { [currentPrice |-> c] @@ t : c \in {0, 90, 120}, t \in UnmarkedSamples }

AccountSamples ==
    { [name |-> "Income Generator", startingValue |-> 17000, currentCash |-> c] :
      c \in {2000, -500} }

AnalyticsInputs ==
    [ fn : {"AnalyticsView"}, applied : {FALSE},
      closedTrades : SeqsUpTo(ClosedSamples, MaxClosed) ]

ValuationInputs ==
    [ fn : {"AccountDashboard"}, applied : {FALSE}, account : AccountSamples,
      trades : SeqsUpTo(OpenSamples, MaxOpen) ]

ApplyAnalyticsView ==
    /\ probe.fn = "AnalyticsView" /\ ~probe.applied
    /\ probe' = [applied   |-> TRUE,
                 byAccount |-> accountCards(probe.closedTrades),
                 bySource  |-> sourceData(probe.closedTrades)] @@ probe
    /\ UNCHANGED programVars

ApplyAccountDashboard ==
    /\ probe.fn = "AccountDashboard" /\ ~probe.applied
    /\ probe' = [applied |-> TRUE,
                 result  |-> AccountDashboard(probe.account, probe.trades)]
                  @@ probe
    /\ UNCHANGED programVars

InitFunctions ==
    /\ trades = << >>
    /\ settings = InitialSettings
    /\ activeView = "dashboard"
    /\ isJournalEntryOpen = FALSE
    /\ userInput = << >>
    /\ isLoading = FALSE
    /\ error = ""
    /\ parsedTrade = Null
    /\ calls = NoCalls
    /\ tradeToClose = Null
    /\ form = InitialForm
    /\ alertMsg = ""
    /\ apiKey = TRUE
    /\ cashAtOpen = << >>
    /\ probe \in CalculatePLInputs \cup TradeIdInputs
                   \cup AnalyticsInputs \cup ValuationInputs

NextFunctions ==
    \/ ApplyCalculatePL
    \/ ApplyTradeId
    \/ ApplyAnalyticsView
    \/ ApplyAccountDashboard

SpecFunctions == InitFunctions /\ [][NextFunctions]_vars

Applied(fn) == probe.fn = fn /\ probe.applied

-----------------------------------------------------------------------------
\* C15: calculatePL(e, m, s, Long) = -calculatePL(m, e, s, Long) for all
\* entry prices e, mark prices m and share counts s.
C15_LongAntisymmetric ==
    (Applied("calculatePL") /\ probe.direction = "Long") =>
      probe.result = -calculatePL(probe.currentPrice, probe.entryPrice,
                                  probe.shareCount, "Long")

C15_Witness ==
    /\ Applied("calculatePL")
    /\ probe.direction = "Long"
    /\ probe.entryPrice = 2 /\ probe.currentPrice = 5 /\ probe.shareCount = 3
    /\ probe.result = 9

\* C16: with n trades stored, the id of the next trade is 'TRADE-' followed
\* by n + 1 padded with zeros to three digits; the first nine trades are
\* TRADE-001 .. TRADE-009.
ThreeDigits(k) ==
    IF k < 1000
    THEN ToString(k \div 100) \o ToString((k \div 10) % 10) \o ToString(k % 10)
    ELSE ToString(k)

C16_SequentialPaddedId ==
    Applied("TradeId") =>
      /\ probe.result = "TRADE-" \o ThreeDigits(probe.count + 1)
      /\ probe.count + 1 <= 9 =>
           probe.result = "TRADE-00" \o ToString(probe.count + 1)

C16_Witness ==
    /\ Applied("TradeId")
    /\ probe.count = 41
    /\ probe.result = "TRADE-042"

-----------------------------------------------------------------------------
\* C17: on trade creation, an entryPrice or positionSize that is missing or
\* non-numeric becomes 0 and a numeric one is kept; shareCount is
\* positionSize / entryPrice when entryPrice > 0 and the proposal's quantity
\* otherwise.  The trade made from entryPrice 150 and positionSize 15000 has
\* shareCount 100 and, closed Long at 160, profitLoss 1000.
Missing(v) == v.type \in {"undefined", "null"}

\* a string without any digit
NonNumeric(v) ==
    v.type = "text" /\ \A i \in DOMAIN v.val : v.val[i] \notin Digits

\* a string of digits only
Numeral(v) ==
    v.type = "text" /\ v.val # << >> /\ \A i \in DOMAIN v.val : v.val[i] \in Digits

Normalized(v, field) ==
    /\ (Missing(v) \/ NonNumeric(v)) => field = 0
    /\ v.type = "number" => field = v.val
    /\ Numeral(v) => field = DigitsValue(v.val, 0)

C17_CreationStep ==
    Creates =>
      /\ parsedTrade # Null
      /\ LET t == trades'[Len(trades')] IN
         /\ Normalized(parsedTrade.entryPrice, t.entryPrice)
         /\ Normalized(parsedTrade.positionSize, t.positionSize)
         /\ t.entryPrice > 0 => t.shareCount * t.entryPrice = t.positionSize
         /\ ~(t.entryPrice > 0) => t.shareCount = parsedTrade.quantity.val

C17_Example ==
    \A i \in DOMAIN trades :
      (trades[i].entryPrice = 150 /\ trades[i].positionSize = 15000) =>
        /\ trades[i].shareCount = 100
        /\ (/\ trades[i].status = "closed"
            /\ trades[i].direction = "Long"
            /\ trades[i].exitData.exitPrice = 160) => PLOf(trades[i]) = 1000

C17_CreationNormalizes == [] C17_Example /\ [][C17_CreationStep]_vars

C17_Witness ==
    /\ Len(trades) = 2
    /\ trades[1].status = "closed"
    /\ trades[1].entryPrice = 150 /\ trades[1].positionSize = 15000
    /\ trades[1].shareCount = 100 /\ trades[1].direction = "Long"
    /\ trades[1].exitData.exitPrice = 160
    /\ PLOf(trades[1]) = 1000
    /\ trades[2].entryPrice = 100 /\ trades[2].positionSize = 0
    /\ trades[2].shareCount = 0

-----------------------------------------------------------------------------
(* Vocabulary of the aggregate claims, in the words of the specification *)

PartitionBy(closed, key, value) == SelectSeq(closed, LAMBDA t : t[key] = value)

WinCount(trs) == Cardinality({ i \in DOMAIN trs : PLOf(trs[i]) > 0 })

RECURSIVE PLSum(_, _)
PLSum(trs, n) == IF n = 0 THEN 0 ELSE PLOf(trs[n]) + PLSum(trs, n - 1)

\* q is the quotient a / b, b # 0
IsQuotient(q, a, b) == q.den > 0 /\ q.num * b = a * q.den

\* rate is wins / count of trs, held as a percentage
IsWinRate(rate, trs) == IsQuotient(rate, 100 * WinCount(trs), Len(trs))

IsAccountAggregate(s, trs) ==
    /\ s.totalTrades = Len(trs)
    /\ trs # << >> =>
         /\ IsWinRate(s.winRate, trs)
         /\ s.totalPL = PLSum(trs, Len(trs))
         /\ IsQuotient(s.avgPL, PLSum(trs, Len(trs)), Len(trs))

AccountsAggregated ==
    /\ \A i \in DOMAIN probe.closedTrades :
         probe.closedTrades[i].account \in DOMAIN probe.byAccount
    /\ \A a \in DOMAIN probe.byAccount :
         IsAccountAggregate(probe.byAccount[a],
                            PartitionBy(probe.closedTrades, "account", a))

SourcesPartitioned ==
    /\ \A j, k \in DOMAIN probe.bySource :
         probe.bySource[j].name = probe.bySource[k].name => j = k
    /\ { probe.bySource[k].name : k \in DOMAIN probe.bySource }
         = { probe.closedTrades[i].source : i \in DOMAIN probe.closedTrades }

\* C18 as amended: the closed trades are partitioned by account and by
\* source; each account partition gets its trade count, win rate (wins /
\* count as a percentage, a win being profitLoss > 0), total P/L and average
\* P/L per trade, and each source partition gets its trade count and win rate
\* only.
C18_AggregatesPerPartition ==
    Applied("AnalyticsView") =>
      /\ AccountsAggregated
      /\ SourcesPartitioned
      /\ \A k \in DOMAIN probe.bySource :
           LET s   == probe.bySource[k]
               trs == PartitionBy(probe.closedTrades, "source", s.name)
           IN  /\ DOMAIN s = {"name", "trades", "winRate"}
               /\ s.trades = Len(trs)
               /\ IsWinRate(s.winRate, trs)

\* P/L +100, -50, +30 and a trade that broke even, all in one account
C18_Witness ==
    /\ Applied("AnalyticsView")
    /\ Len(probe.closedTrades) = 3
    /\ \A i \in 1..3 : probe.closedTrades[i].account = "Income Generator"
    /\ \A i \in 1..3 : probe.closedTrades[i].source = "AI Suggestion"
    /\ PLOf(probe.closedTrades[1]) = 100
    /\ PLOf(probe.closedTrades[2]) = -50
    /\ PLOf(probe.closedTrades[3]) = 30
    /\ probe.byAccount["Income Generator"]
         = [totalTrades |-> 3, winRate |-> [num |-> 200, den |-> 3],
            totalPL |-> 80, avgPL |-> [num |-> 80, den |-> 3]]
    /\ probe.bySource
         = << [name |-> "AI Suggestion", trades |-> 3,
               winRate |-> [num |-> 200, den |-> 3]] >>

\* C18 as stated: every partition, by account and by source, gets its trade
\* count, win rate, total P/L and average P/L per trade.
C18_Original ==
    Applied("AnalyticsView") =>
      /\ AccountsAggregated
      /\ SourcesPartitioned
      /\ \A k \in DOMAIN probe.bySource :
           LET s   == probe.bySource[k]
               trs == PartitionBy(probe.closedTrades, "source", s.name)
           IN  /\ s.trades = Len(trs)
               /\ IsWinRate(s.winRate, trs)
               /\ {"totalPL", "avgPL"} \subseteq DOMAIN s
               /\ s.totalPL = PLSum(trs, Len(trs))
               /\ IsQuotient(s.avgPL, PLSum(trs, Len(trs)), Len(trs))

\* C19: the aggregates of an empty partition are trade count 0, winRate 0,
\* totalPL 0 and avgPL 0; nothing is divided by zero and no closed trades at
\* all give no source partition.
NoDivisionByZero ==
    /\ \A a \in DOMAIN probe.byAccount :
         probe.byAccount[a].winRate.den # 0 /\ probe.byAccount[a].avgPL.den # 0
    /\ \A k \in DOMAIN probe.bySource : probe.bySource[k].winRate.den # 0

C19_EmptyPartitionIsZero ==
    Applied("AnalyticsView") =>
      /\ \A a \in DOMAIN probe.byAccount :
           PartitionBy(probe.closedTrades, "account", a) = << >> =>
             probe.byAccount[a] = [totalTrades |-> 0, winRate |-> Whole(0),
                                   totalPL |-> 0, avgPL |-> Whole(0)]
      /\ NoDivisionByZero
      /\ \A k \in DOMAIN probe.bySource : probe.bySource[k].trades > 0
      /\ probe.closedTrades = << >> => probe.bySource = << >>

C19_Witness ==
    /\ Applied("AnalyticsView")
    /\ probe.closedTrades = << >>
    /\ \A a \in {"Income Generator", "Speculation", "Trading Lab"} :
         probe.byAccount[a].totalTrades = 0 /\ probe.byAccount[a].avgPL = Whole(0)
    /\ probe.bySource = << >>

-----------------------------------------------------------------------------
\* C20: openPL is the sum over the account's active trades of
\* profitLoss(entryPrice, currentPrice if present else entryPrice, shareCount,
\* direction), totalValue is currentCash plus the sum of positionSize + that
\* P/L, and a trade with no currentPrice contributes P/L 0.
LastMark(t) ==
    IF "currentPrice" \in DOMAIN t THEN t.currentPrice ELSE t.entryPrice

OpenPLOf(t) == ProfitLoss(t.entryPrice, LastMark(t), t.shareCount, t.direction)

RECURSIVE OpenPLSum(_, _)
OpenPLSum(trs, n) == IF n = 0 THEN 0 ELSE OpenPLOf(trs[n]) + OpenPLSum(trs, n - 1)

RECURSIVE PositionSum(_, _)
PositionSum(trs, n) ==
    IF n = 0 THEN 0 ELSE trs[n].positionSize + PositionSum(trs, n - 1)

-----------------------------------------------------------------------------
\* C21: no floor is enforced on currentCash: a step that opens a position
\* whose positionSize exceeds the currentCash of its account is accepted (the
\* trade is appended as active) and leaves that account with the negative
\* currentCash  cash - positionSize.
C21_OverdraftStep ==
    Creates =>
      LET t == trades'[Len(trades')] IN
      \A a \in AccountIdx :
        (/\ settings.accounts[a].name = t.account
         /\ t.positionSize > settings.accounts[a].currentCash) =>
          /\ trades' = Append(trades, t)
          /\ t.status = "active"
          /\ settings'.accounts[a].currentCash
               = settings.accounts[a].currentCash - t.positionSize
          /\ settings'.accounts[a].currentCash < 0
          /\ alertMsg' = "" /\ error' = ""

C21_NoCashFloor == [][C21_OverdraftStep]_vars

C21_Witness ==
    /\ Len(trades) = 1
    /\ trades[1].status = "active"
    /\ trades[1].account = "Speculation" /\ trades[1].positionSize = 4000
    /\ settings.accounts[2].startingValue = 3000
    /\ settings.accounts[2].currentCash = -1000

-----------------------------------------------------------------------------
\* C22: in every reachable state each configured account's currentCash is its
\* startingValue minus the positionSize of its active trades plus the
\* realized profitLoss of its closed trades, and its startingValue is the one
\* of the initial settings.
RECURSIVE CommittedTo(_, _)
CommittedTo(name, n) ==
    IF n = 0 THEN 0
    ELSE CommittedTo(name, n - 1)
           + IF trades[n].account = name /\ trades[n].status = "active"
             THEN trades[n].positionSize ELSE 0

RECURSIVE RealizedBy(_, _)
RealizedBy(name, n) ==
    IF n = 0 THEN 0
    ELSE RealizedBy(name, n - 1)
           + IF trades[n].account = name /\ trades[n].status = "closed"
             THEN PLOf(trades[n]) ELSE 0

C22_LedgerInvariant ==
    /\ DOMAIN settings.accounts = DOMAIN InitialSettings.accounts
    /\ \A a \in AccountIdx :
         LET acc == settings.accounts[a] IN
         /\ acc.name = InitialSettings.accounts[a].name
         /\ acc.startingValue = InitialSettings.accounts[a].startingValue
         /\ acc.currentCash = acc.startingValue
                                - CommittedTo(acc.name, Len(trades))
                                + RealizedBy(acc.name, Len(trades))

\* one closed trade with a gain and one open position in the same account
C22_Witness ==
    /\ Len(trades) = 2
    /\ trades[1].account = "Income Generator" /\ trades[1].status = "closed"
    /\ PLOf(trades[1]) = 1000
    /\ trades[2].account = "Income Generator" /\ trades[2].status = "active"
    /\ trades[2].positionSize = 15000
    /\ settings.accounts[1].currentCash = 3000

-----------------------------------------------------------------------------
\* C23: an active trade whose account matches no configured account is
\* listed under no account dashboard, so the close operation cannot be
\* started for it (it is never the trade of the exit form), and every step
\* leaves its record as it is: it stays active.
Unmatched(t) == t.status = "active" /\ ~Configured(t.account)

C23_NotListed ==
    \A i \in DOMAIN trades :
      Unmatched(trades[i]) =>
        /\ \A a \in AccountIdx :
             \A k \in DOMAIN accountTrades(settings.accounts[a]) :
               accountTrades(settings.accounts[a])[k].id # trades[i].id
        /\ trades[i] \notin ListedTrades
        /\ ~ENABLED OpenCloseModal(trades[i])
        /\ tradeToClose # Null => tradeToClose.id # trades[i].id

C23_StaysActive ==
    \A i \in DOMAIN trades :
      Unmatched(trades[i]) =>
        /\ i \in DOMAIN trades'
        /\ trades'[i] = trades[i]
        /\ Unmatched(trades'[i])

C23_UnmatchedNeverCloses == [] C23_NotListed /\ [][C23_StaysActive]_vars

\* the trade created first is still active after a later one was closed
C23_Witness ==
    /\ Len(trades) = 2
    /\ trades[1].account = "Uncategorized" /\ trades[1].status = "active"
    /\ trades[2].status = "closed"
    /\ activeView = "dashboard"
    /\ tradeToClose = Null

=============================================================================
